---- MODULE Spec2Model ----
(***************************************************************************)
(* A model of cs (cc-switcher), src/main.go: the configuration file is     *)
(* loaded (and created with a default entry when missing), the environment *)
(* named by the first argument is looked up, and its target command is     *)
(* launched with the configured variables appended to the inherited        *)
(* environment.                                                            *)
(*                                                                         *)
(* A string of the program (a target, a variable name, a value, an entry   *)
(* "K=V") is a sequence of symbols.  A symbol is a whitespace character,   *)
(* the character "=", or a run of other characters.                        *)
(***************************************************************************)
EXTENDS Integers, Sequences, FiniteSets

VARIABLES
    file,       \* the config file's content, or NoFile
    dirExists,  \* whether the config directory ~/.cs exists
    pc,         \* each invocation's position in main
    args,       \* os.Args[1:] of the invocation
    fault,      \* the failure the invocation's platform calls will meet
    parentEnv,  \* os.Environ() of the invocation
    ret,        \* who called LoadConfig: "main" or "print"
    missing,    \* LoadConfig: os.IsNotExist(err) of line 54
    data,       \* LoadConfig: the bytes ReadFile returned
    cfg,        \* the *Config LoadConfig returned (NilConfig on error)
    err,        \* the error last returned by LoadConfig or Run
    envConfig,  \* main: the Environment the lookup found
    cmd,        \* Run: the exec.Cmd built
    child,      \* the child process started, or NoChild
    starts,     \* how many times this invocation started a child
    out,        \* what the invocation printed, in order
    exit,       \* <<>> while running, <<k>> once exited with status k
    file0,      \* the file as it was when the invocation began
    loads,      \* how many times this invocation called LoadConfig
    missedIn,   \* main: the keys of the Configuration its lookup missed in
    userFile    \* the file as the user last left it (as it was in the beginning)

vars == <<file, dirExists, pc, args, fault, parentEnv, ret, missing, data, cfg,
          err, envConfig, cmd, child, starts, out, exit, file0, loads, missedIn, userFile>>

----------------------------------------------------------------------------
(* Bounds *)

NumProcs == 2
MaxTargetLen == 3
MaxChildStatus == 2
MaxPermuted == 3

Procs == 1 .. NumProcs
\* Spec runs one invocation after another: only this one ever runs.
SeqProcs == {1}

----------------------------------------------------------------------------
(* Strings *)

Whitespace == {" ", "\t"}
TargetSymbols == {"a", "\""} \cup Whitespace

RECURSIVE SeqsUpTo(_, _)
SeqsUpTo(S, n) ==
    IF n = 0 THEN {<<>>}
    ELSE LET shorter == SeqsUpTo(S, n - 1)
         IN  shorter \cup {Append(s, x) : s \in {t \in shorter : Len(t) = n - 1}, x \in S}

Targets == SeqsUpTo(TargetSymbols, MaxTargetLen)

\* strings.Fields: the maximal runs of non-whitespace symbols, in order.
\* cur is the field being scanned (<<>> when between fields).
RECURSIVE FieldsFrom(_, _, _, _)
FieldsFrom(s, i, cur, acc) ==
    IF i > Len(s)
    THEN IF cur = <<>> THEN acc ELSE Append(acc, cur)
    ELSE IF s[i] \in Whitespace
         THEN FieldsFrom(s, i + 1, <<>>, IF cur = <<>> THEN acc ELSE Append(acc, cur))
         ELSE FieldsFrom(s, i + 1, Append(cur, s[i]), acc)

\* A plausible slip: split at every single whitespace symbol (strings.Split),
\* which yields empty tokens between adjacent separators.
RECURSIVE SplitFrom(_, _, _, _)
SplitFrom(s, i, cur, acc) ==
    IF i > Len(s)
    THEN Append(acc, cur)
    ELSE IF s[i] \in Whitespace
         THEN SplitFrom(s, i + 1, <<>>, Append(acc, cur))
         ELSE SplitFrom(s, i + 1, Append(cur, s[i]), acc)

FieldsMutant(s) == SplitFrom(s, 1, <<>>, <<>>)

Fields(s) == FieldsFrom(s, 1, <<>>, <<>>)

\* fmt.Sprintf("%s=%s", key, value)
FormatEntry(key, value) == key \o <<"=">> \o value

\* The name of an environment entry: what precedes its first "=".
RECURSIVE EntryKeyFrom(_, _)
EntryKeyFrom(e, i) ==
    IF i > Len(e) THEN e
    ELSE IF e[i] = "=" THEN SubSeq(e, 1, i - 1)
    ELSE EntryKeyFrom(e, i + 1)

EntryKey(e) == EntryKeyFrom(e, 1)

EntryValue(e) == SubSeq(e, Len(EntryKey(e)) + 2, Len(e))

\* The permutations of a finite set, as sequences (Go's map iteration order
\* is unspecified).
Perms(S) ==
    {s \in [1 .. Cardinality(S) -> S] : \A i, j \in 1 .. Cardinality(S) : i # j => s[i] # s[j]}

\* The rotations of a sequence.
Rotations(s) ==
    {[i \in 1 .. Len(s) |-> s[((i + k - 1) % Len(s)) + 1]] : k \in 0 .. (Len(s) - 1)}

----------------------------------------------------------------------------
(* The configuration file and its parsed form *)

EnvNames == {"glm", "GLM", "dev"}

VarNames == {<<"A">>, <<"B">>, <<"A", "=", "B">>}
VarValues == {<<"x">>, <<"y", "=">>}

\* The mappings an `environment:` section can hold.
VarMaps == UNION {[S -> VarValues] : S \in SUBSET VarNames}

NoVars == [k \in {} |-> <<>>]

\* type Environment struct { Target string; Environment map[string]string }
Environment(target, variables) == [Target |-> target, Environment |-> variables]

\* The zero value of Environment, which a `name:` entry without a body decodes to.
ZeroEnvironment == Environment(<<>>, NoVars)

\* One `name: body` entry of the environments section, in the text; an
\* entry without a body is null.
Entry(name, env) == [name |-> name, null |-> FALSE, env |-> env]
NullEntry(name) == [name |-> name, null |-> TRUE, env |-> ZeroEnvironment]

NoFile == [kind |-> "nofile", section |-> "absent", entries |-> <<>>]

\* A file's content: no bytes at all, text that is not YAML, or a YAML
\* document whose `environments` section is absent, null, a list (the wrong
\* shape) or a mapping of names to environments.
EmptyContent == [kind |-> "empty", section |-> "absent", entries |-> <<>>]
Malformed == [kind |-> "malformed", section |-> "absent", entries |-> <<>>]
Doc(section, entries) == [kind |-> "doc", section |-> section, entries |-> entries]

\* The variables of the default entry, in the order of lines 97-105.
DefaultVarTable ==
    << <<"CLAUDE_CODE_DISABLE_NONESSENTIAL_TRAFFIC", "1">>,
       <<"ANTHROPIC_BASE_URL", "https://open.bigmodel.cn/api/anthropic">>,
       <<"ANTHROPIC_AUTH_TOKEN", "your-glm-api-key">>,
       <<"ANTHROPIC_MODEL", "glm-4.6">>,
       <<"ANTHROPIC_SMALL_FAST_MODEL", "glm-4.5-air">>,
       <<"ANTHROPIC_DEFAULT_SONNET_MODEL", "glm-4.6">>,
       <<"ANTHROPIC_DEFAULT_OPUS_MODEL", "glm-4.6">>,
       <<"ANTHROPIC_DEFAULT_HAIKU_MODEL", "glm-4.5-air">>,
       <<"API_TIMEOUT_MS", "3000000">> >>

DefaultVarOrder == [i \in 1 .. Len(DefaultVarTable) |-> <<DefaultVarTable[i][1]>>]

DefaultVars ==
    [k \in {DefaultVarOrder[i] : i \in 1 .. Len(DefaultVarTable)} |->
        <<DefaultVarTable[CHOOSE i \in 1 .. Len(DefaultVarTable) : DefaultVarOrder[i] = k][2]>>]

\* A plausible slip: the default entry written under another name.
DefaultConfigMutant ==
    Doc("map", <<Entry("default", Environment(<<"claude">>, DefaultVars))>>)

\* The text createDefaultConfig writes.
DefaultConfig ==
    Doc("map", <<Entry("glm", Environment(<<"claude">>, DefaultVars))>>)

PlainEnv == Environment(<<"a">>, NoVars)
OneVar == [k \in {<<"A">>} |-> <<"x">>]

\* The entries named by S, in one order of the text.
EntriesOf(S) ==
    LET order == <<"glm", "GLM", "dev">>
        F[i \in 0 .. Len(order)] ==
            IF i = 0 THEN <<>>
            ELSE IF order[i] \in S THEN Append(F[i - 1], Entry(order[i], PlainEnv))
            ELSE F[i - 1]
    IN  F[Len(order)]

\* The contents the file is given: every shape of the environments section,
\* every set of names, a name given twice, an entry without a body, every
\* target and every variable mapping.
Contents ==
    {EmptyContent, Malformed, DefaultConfig,
     Doc("absent", <<>>), Doc("null", <<>>), Doc("seq", <<>>),
     Doc("map", <<Entry("dev", PlainEnv), Entry("dev", PlainEnv)>>),
     Doc("map", <<NullEntry("dev"), Entry("glm", PlainEnv)>>)}
    \cup {Doc("map", EntriesOf(S)) : S \in SUBSET EnvNames}
    \cup {Doc("map", <<Entry("dev", Environment(t, OneVar))>>) : t \in Targets}
    \cup {Doc("map", <<Entry("dev", Environment(<<"a">>, v))>>) : v \in VarMaps}

\* type Config struct { Environments map[string]Environment }; nilmap says
\* that the Go map is nil.
Config(nilmap, m) == [nilmap |-> nilmap, Environments |-> m]

\* Whether a name is given twice, which yaml.v3 rejects ("mapping key
\* already defined").
HasDuplicate(entries) ==
    \E i, j \in 1 .. Len(entries) : i # j /\ entries[i].name = entries[j].name

\* The Go map decoded from the entries: a null body decodes to the zero value.
DecodeMap(entries) ==
    [n \in {entries[i].name : i \in 1 .. Len(entries)} |->
        LET e == entries[CHOOSE i \in 1 .. Len(entries) : entries[i].name = n]
        IN  IF e.null THEN ZeroEnvironment ELSE e.env]

\* A plausible slip: a text that does not parse is taken for an empty document.
UnmarshalMutant(c) ==
    IF c.kind = "doc" /\ c.section = "map" /\ ~HasDuplicate(c.entries)
    THEN [failed |-> FALSE, config |-> Config(FALSE, DecodeMap(c.entries))]
    ELSE [failed |-> FALSE, config |-> Config(TRUE, NoVars)]

\* yaml.Unmarshal(data, &config): whether it failed, and config afterwards.
Unmarshal(c) ==
    IF \/ c.kind = "malformed"
       \/ c.kind = "doc" /\ c.section = "seq"
       \/ c.kind = "doc" /\ c.section = "map" /\ HasDuplicate(c.entries)
    THEN [failed |-> TRUE, config |-> Config(TRUE, NoVars)]
    ELSE IF c.kind = "doc" /\ c.section = "map"
    THEN [failed |-> FALSE, config |-> Config(FALSE, DecodeMap(c.entries))]
    ELSE [failed |-> FALSE, config |-> Config(TRUE, NoVars)]

\* A plausible slip: the nil check of lines 74-76 left out.
NormalizeMutant(config) == config

\* Lines 74-76: a nil Environments map is replaced by make(map[string]Environment).
Normalize(config) ==
    IF config.nilmap THEN Config(FALSE, NoVars) ELSE config

----------------------------------------------------------------------------
(* Errors, by the message the code gives them *)

NoError == ""
HomeDirUnavailable == "failed to get user home directory"
ConfigWriteError == "failed to create default config"
ConfigReadError == "failed to read config file"
ConfigParseError == "failed to parse config file"
EmptyTarget == "target command is empty"
InvalidTarget == "invalid target command"
StartError == "exec: executable file not found"
ExitError == "exit status"

Faults == {"none", "nohome", "mkdir", "write", "read", "nostart"}

----------------------------------------------------------------------------
(* Environment blocks *)

ParentEnvs ==
    { <<>>,
      <<FormatEntry(<<"A">>, <<"p">>)>>,
      <<FormatEntry(<<"B">>, <<"q">>)>>,
      <<FormatEntry(<<"A">>, <<"p">>), FormatEntry(<<"B">>, <<"x">>)>> }

\* The orders in which `range` may yield the keys of a variables map: every
\* order for a map of up to MaxPermuted keys; for the larger map of the
\* default entry, the rotations of the order of the source.
KeyOrders(variables) ==
    IF Cardinality(DOMAIN variables) <= MaxPermuted
    THEN Perms(DOMAIN variables)
    ELSE Rotations(DefaultVarOrder)

\* cmd.Env: nil, or a list of entries.
NilEnv == [set |-> FALSE, list |-> <<>>]
EnvList(l) == [set |-> TRUE, list |-> l]

\* A plausible slip: the configured entries put before the inherited ones.
OverlayMutant(parent, variables, order) ==
    [i \in 1 .. Len(order) |-> FormatEntry(order[i], variables[order[i]])] \o parent

\* Lines 140-145: os.Environ() with one entry appended per configured
\* variable, in the order the map iteration yields them.
Overlay(parent, variables, order) ==
    parent \o [i \in 1 .. Len(order) |-> FormatEntry(order[i], variables[order[i]])]

\* os/exec: "If Env contains duplicate environment keys, only the last value
\* in the slice for each duplicate key is used."
DedupEnv(l) ==
    LET keep == {i \in 1 .. Len(l) :
                    \A j \in (i + 1) .. Len(l) : EntryKey(l[j]) # EntryKey(l[i])}
        F[i \in 0 .. Len(l)] ==
            IF i = 0 THEN <<>>
            ELSE IF i \in keep THEN Append(F[i - 1], l[i]) ELSE F[i - 1]
    IN  F[Len(l)]

\* The environment block the child is started with: the parent's when
\* cmd.Env is nil.
ChildEnviron(env, parent) ==
    IF env.set THEN DedupEnv(env.list) ELSE parent

\* getenv in a process whose environment block is l: <<v>> when name is
\* set to v, <<>> when it is not set.
Getenv(l, name) ==
    LET hits == {i \in 1 .. Len(l) : EntryKey(l[i]) = name /\ Len(l[i]) > Len(name)}
    IN  IF hits = {} THEN <<>>
        ELSE <<EntryValue(l[CHOOSE i \in hits : \A j \in hits : i <= j])>>

----------------------------------------------------------------------------
(* State *)

ArgLists == {<<>>, <<"glm">>, <<"GLM">>, <<"dev">>, <<"dev", "glm">>}

None == <<>>
Some(x) == <<x>>

Set(f, p, v) == [f EXCEPT ![p] = v]

\* The state before any invocation, the file holding one of C or missing.
InitWith(C) ==
    /\ file \in C \cup {NoFile}
    /\ dirExists \in BOOLEAN
    /\ (file # NoFile => dirExists)
    /\ pc = [p \in Procs |-> "idle"]
    /\ args = [p \in Procs |-> <<>>]
    /\ fault = [p \in Procs |-> "none"]
    /\ parentEnv = [p \in Procs |-> <<>>]
    /\ ret = [p \in Procs |-> "main"]
    /\ missing = [p \in Procs |-> FALSE]
    /\ data = [p \in Procs |-> NoFile]
    /\ cfg = [p \in Procs |-> None]
    /\ err = [p \in Procs |-> NoError]
    /\ envConfig = [p \in Procs |-> None]
    /\ cmd = [p \in Procs |-> None]
    /\ child = [p \in Procs |-> None]
    /\ starts = [p \in Procs |-> 0]
    /\ out = [p \in Procs |-> <<>>]
    /\ exit = [p \in Procs |-> None]
    /\ file0 = [p \in Procs |-> NoFile]
    /\ loads = [p \in Procs |-> 0]
    /\ missedIn = [p \in Procs |-> None]
    /\ userFile = file

Init == InitWith(Contents)

\* What an action leaves alone.
Locals == <<args, fault, parentEnv, file0, userFile>>
LoadLocals == <<ret, missing, data, cfg, err>>
RunLocals == <<envConfig, cmd, child, starts, missedIn>>
Disk == <<file, dirExists>>

Emit(p, line) == out' = Set(out, p, Append(out[p], line))

\* os.Exit(k), and log.Fatalf, which exits with status 1.
Exit(p, k) ==
    /\ pc' = Set(pc, p, "done")
    /\ exit' = Set(exit, p, Some(k))

----------------------------------------------------------------------------
(* An invocation begins: the shell starts cs with its arguments and its    *)
(* environment.                                                            *)

StartWith(p, A, F, E) ==
    /\ pc[p] = "idle"
    /\ \E a \in A, f \in F, e \in E :
        /\ args' = Set(args, p, a)
        /\ fault' = Set(fault, p, f)
        /\ parentEnv' = Set(parentEnv, p, e)
    /\ pc' = Set(pc, p, "main")
    /\ file0' = Set(file0, p, file)
    /\ UNCHANGED <<Disk, LoadLocals, RunLocals, out, exit, loads, userFile>>

Start(p) == StartWith(p, ArgLists, Faults, ParentEnvs)

\* The call of LoadConfig from `from`.
CallLoadConfig(p, from) ==
    /\ pc' = Set(pc, p, "load")
    /\ ret' = Set(ret, p, from)
    /\ missing' = Set(missing, p, FALSE)
    /\ data' = Set(data, p, NoFile)
    /\ cfg' = Set(cfg, p, None)
    /\ err' = Set(err, p, NoError)
    /\ loads' = Set(loads, p, loads[p] + 1)

\* LoadConfig returns (nil, e).
LoadFails(p, e) ==
    /\ pc' = Set(pc, p, "loaded")
    /\ cfg' = Set(cfg, p, None)
    /\ err' = Set(err, p, e)

\* A plausible slip: without an argument only the usage is printed, and
\* nothing is loaded.
MainMutant(p) ==
    /\ pc[p] = "main"
    /\ IF Len(args[p]) < 1
       THEN /\ Emit(p, <<"usage", "">>)
            /\ Exit(p, 1)
            /\ UNCHANGED <<LoadLocals, loads>>
       ELSE /\ CallLoadConfig(p, "main")
            /\ UNCHANGED <<out, exit>>
    /\ UNCHANGED <<Disk, Locals, RunLocals>>

\* main, lines 160-170: without an argument, the usage and the names; with
\* one, the load.
Main(p) ==
    /\ pc[p] = "main"
    /\ IF Len(args[p]) < 1
       THEN /\ out' = Set(out, p, out[p] \o <<<<"usage", "">>, <<"available", "">>>>)
            /\ CallLoadConfig(p, "print")
       ELSE /\ CallLoadConfig(p, "main")
            /\ UNCHANGED out
    /\ UNCHANGED <<Disk, Locals, RunLocals, exit>>

----------------------------------------------------------------------------
(* LoadConfig and createDefaultConfig *)

\* Lines 48-51: GetConfigPath.
GetConfigPath(p) ==
    /\ pc[p] = "load"
    /\ IF fault[p] = "nohome"
       THEN LoadFails(p, HomeDirUnavailable)
       ELSE /\ pc' = Set(pc, p, "stat")
            /\ UNCHANGED <<cfg, err>>
    /\ UNCHANGED <<Disk, Locals, RunLocals, ret, missing, data, out, exit, loads>>

\* A plausible slip: the default is written whether or not the file exists.
StatSaysMissingMutant(f) == TRUE

\* Line 54: os.IsNotExist of the error os.Stat gives for the file f.
StatSaysMissing(f) == f = NoFile

Stat(p) ==
    /\ pc[p] = "stat"
    /\ missing' = Set(missing, p, StatSaysMissing(file))
    /\ pc' = Set(pc, p, IF StatSaysMissing(file) THEN "mkdir" ELSE "read")
    /\ UNCHANGED <<Disk, Locals, RunLocals, ret, data, cfg, err, out, exit, loads>>

\* Line 85: os.MkdirAll(configDir, 0755).
MkdirAll(p) ==
    /\ pc[p] = "mkdir"
    /\ IF fault[p] = "mkdir" /\ ~dirExists
       THEN /\ LoadFails(p, ConfigWriteError)
            /\ UNCHANGED dirExists
       ELSE /\ dirExists' = TRUE
            /\ pc' = Set(pc, p, "open")
            /\ UNCHANGED <<cfg, err>>
    /\ UNCHANGED <<file, Locals, RunLocals, ret, missing, data, out, exit, loads>>

\* Line 116, os.WriteFile: the file is opened with O_WRONLY|O_CREATE|O_TRUNC,
\* which creates it or empties it ...
OpenTrunc(p) ==
    /\ pc[p] = "open"
    /\ IF fault[p] = "write" \/ ~dirExists
       THEN /\ LoadFails(p, ConfigWriteError)
            /\ UNCHANGED file
       ELSE /\ file' = EmptyContent
            /\ pc' = Set(pc, p, "write")
            /\ UNCHANGED <<cfg, err>>
    /\ UNCHANGED <<dirExists, Locals, RunLocals, ret, missing, data, out, exit, loads>>

\* ... and the default text is written to it (to the open file: a path
\* unlinked in between stays missing); lines 59-60 print the notice.
WriteDefault(p) ==
    /\ pc[p] = "write"
    /\ file' = IF file = NoFile THEN NoFile ELSE DefaultConfig
    /\ out' = Set(out, p, out[p] \o <<<<"created", "">>>>)
    /\ pc' = Set(pc, p, "read")
    /\ UNCHANGED <<dirExists, Locals, RunLocals, LoadLocals, exit, loads>>

\* Line 64: os.ReadFile.
ReadFile(p) ==
    /\ pc[p] = "read"
    /\ IF fault[p] = "read" \/ file = NoFile
       THEN LoadFails(p, ConfigReadError) /\ UNCHANGED data
       ELSE /\ data' = Set(data, p, file)
            /\ pc' = Set(pc, p, "parse")
            /\ UNCHANGED <<cfg, err>>
    /\ UNCHANGED <<Disk, Locals, RunLocals, ret, missing, out, exit, loads>>

\* Lines 69-78: parse, replace a nil map, return.
Parse(p) ==
    /\ pc[p] = "parse"
    /\ LET r == Unmarshal(data[p])
       IN  IF r.failed
           THEN LoadFails(p, ConfigParseError)
           ELSE /\ cfg' = Set(cfg, p, Some(Normalize(r.config)))
                /\ err' = Set(err, p, NoError)
                /\ pc' = Set(pc, p, "loaded")
    /\ UNCHANGED <<Disk, Locals, RunLocals, ret, missing, data, out, exit, loads>>

----------------------------------------------------------------------------
(* main after the load, and printAvailableEnvironments *)

\* A plausible slip: the name is matched without regard to case.
LookupMutant(m, name) ==
    LET lower(n) == IF n = "GLM" THEN "glm" ELSE n
        hits == {k \in DOMAIN m : lower(k) = lower(name)}
    IN  IF hits = {} THEN None ELSE Some(m[CHOOSE k \in hits : TRUE])

\* Line 176: envConfig, exists := cfg.Environments[environment].
Lookup(m, name) ==
    IF name \in DOMAIN m THEN Some(m[name]) ELSE None

\* Lines 171-182: a failed load is fatal; a name that is not a key prints
\* the names, through a second load.
MainAfterLoad(p) ==
    /\ pc[p] = "loaded"
    /\ ret[p] = "main"
    /\ IF err[p] # NoError
       THEN /\ Emit(p, <<"fatal", err[p]>>)
            /\ Exit(p, 1)
            /\ UNCHANGED <<LoadLocals, envConfig, loads, missedIn>>
       ELSE LET found == Lookup(cfg[p][1].Environments, args[p][1])
            IN  IF found # None
                THEN /\ envConfig' = Set(envConfig, p, found)
                     /\ pc' = Set(pc, p, "run")
                     /\ UNCHANGED <<LoadLocals, out, exit, loads, missedIn>>
                ELSE /\ out' = Set(out, p, out[p] \o
                            <<<<"notfound", args[p][1]>>, <<"available", "">>>>)
                     /\ missedIn' = Set(missedIn, p, Some(DOMAIN cfg[p][1].Environments))
                     /\ CallLoadConfig(p, "print")
                     /\ UNCHANGED <<envConfig, exit>>
    /\ UNCHANGED <<Disk, Locals, cmd, child, starts>>

\* A plausible slip: the listing stops before the last name.
ListingMutant(names, order) ==
    [i \in 1 .. (Len(order) - 1) |-> <<"name", order[i]>>]

\* Lines 197-199: one line per key, in the order the map iteration yields.
Listing(names, order) ==
    [i \in 1 .. Len(order) |-> <<"name", order[i]>>]

\* Lines 191-199, then os.Exit(1) of line 164 or 181.
PrintAfterLoad(p) ==
    /\ pc[p] = "loaded"
    /\ ret[p] = "print"
    /\ IF err[p] # NoError
       THEN Emit(p, <<"unable", err[p]>>)
       ELSE LET names == DOMAIN cfg[p][1].Environments
            IN  \E order \in Perms(names) :
                    out' = Set(out, p, out[p] \o Listing(names, order))
    /\ Exit(p, 1)
    /\ UNCHANGED <<Disk, Locals, LoadLocals, RunLocals, loads>>

----------------------------------------------------------------------------
(* Run *)

\* Run returns e to main, line 185.
RunReturns(p, e) ==
    /\ pc' = Set(pc, p, "ran")
    /\ err' = Set(err, p, e)

\* A plausible slip: the target is trimmed before it is tested for "".
ValidateMutant(target) ==
    IF Len(Fields(target)) = 0 THEN EmptyTarget ELSE NoError

\* Lines 121-129: the error Run returns for the target before it builds
\* the command.
Validate(target) ==
    IF target = <<>> THEN EmptyTarget
    ELSE IF Len(Fields(target)) = 0 THEN InvalidTarget
    ELSE NoError

\* Lines 121-148: the target is checked and split, and the command built.
RunBuild(p) ==
    /\ pc[p] = "run"
    /\ LET e == envConfig[p][1]
           parts == Fields(e.Target)
       IN  IF Validate(e.Target) # NoError
           THEN RunReturns(p, Validate(e.Target)) /\ UNCHANGED cmd
           ELSE /\ \E order \in KeyOrders(e.Environment) :
                    cmd' = Set(cmd, p, Some(
                        [Path |-> parts[1],
                         Args |-> Tail(parts),
                         Env |-> IF Cardinality(DOMAIN e.Environment) > 0
                                 THEN EnvList(Overlay(parentEnv[p], e.Environment, order))
                                 ELSE NilEnv]))
                /\ pc' = Set(pc, p, "exec")
                /\ UNCHANGED err
    /\ UNCHANGED <<Disk, Locals, ret, missing, data, cfg, envConfig, child, starts, out, exit, loads, missedIn>>

\* Line 156, cmd.Run: the child is started with the command's path,
\* arguments and environment, or fails to start.
CmdStart(p) ==
    /\ pc[p] = "exec"
    /\ IF fault[p] = "nostart"
       THEN RunReturns(p, StartError) /\ UNCHANGED <<child, starts>>
       ELSE /\ child' = Set(child, p, Some(
                    [path |-> cmd[p][1].Path,
                     argv |-> cmd[p][1].Args,
                     environ |-> ChildEnviron(cmd[p][1].Env, parentEnv[p]),
                     status |-> None]))
            /\ starts' = Set(starts, p, starts[p] + 1)
            /\ pc' = Set(pc, p, "wait")
            /\ UNCHANGED err
    /\ UNCHANGED <<Disk, Locals, ret, missing, data, cfg, envConfig, cmd, out, exit, loads, missedIn>>

\* A plausible slip: cmd.Start in the place of cmd.Run, which returns as
\* soon as the child is started.
CmdWaitMutant(p) ==
    /\ pc[p] = "wait"
    /\ RunReturns(p, NoError)
    /\ UNCHANGED <<Disk, Locals, ret, missing, data, cfg, envConfig, cmd, child, starts, out,
                   exit, loads, missedIn>>

\* Line 156, cmd.Run: the child terminates with status k; a status other
\* than 0 is returned as an *exec.ExitError.
CmdWait(p) ==
    /\ pc[p] = "wait"
    /\ \E k \in 0 .. MaxChildStatus :
        /\ child' = Set(child, p, Some([child[p][1] EXCEPT !.status = Some(k)]))
        /\ RunReturns(p, IF k = 0 THEN NoError ELSE ExitError)
    /\ UNCHANGED <<Disk, Locals, ret, missing, data, cfg, envConfig, cmd, starts, out, exit, loads, missedIn>>

\* A plausible slip: the error of Run is dropped.
StatusOfMutant(e) == 0

\* Lines 185-188: log.Fatalf exits with status 1; falling off main, with 0.
StatusOf(e) == IF e # NoError THEN 1 ELSE 0

MainAfterRun(p) ==
    /\ pc[p] = "ran"
    /\ IF err[p] # NoError
       THEN Emit(p, <<"fatal", err[p]>>)
       ELSE UNCHANGED out
    /\ Exit(p, StatusOf(err[p]))
    /\ UNCHANGED <<Disk, Locals, LoadLocals, RunLocals, loads>>

----------------------------------------------------------------------------
(* The user edits, creates or deletes the file between invocations. *)

\* The process is gone, and nothing of it remains.
Reap(p) ==
    /\ pc[p] = "done"
    /\ pc' = Set(pc, p, "idle")
    /\ args' = Set(args, p, <<>>)
    /\ fault' = Set(fault, p, "none")
    /\ parentEnv' = Set(parentEnv, p, <<>>)
    /\ ret' = Set(ret, p, "main")
    /\ missing' = Set(missing, p, FALSE)
    /\ data' = Set(data, p, NoFile)
    /\ cfg' = Set(cfg, p, None)
    /\ err' = Set(err, p, NoError)
    /\ envConfig' = Set(envConfig, p, None)
    /\ cmd' = Set(cmd, p, None)
    /\ child' = Set(child, p, None)
    /\ starts' = Set(starts, p, 0)
    /\ out' = Set(out, p, <<>>)
    /\ exit' = Set(exit, p, None)
    /\ file0' = Set(file0, p, NoFile)
    /\ loads' = Set(loads, p, 0)
    /\ missedIn' = Set(missedIn, p, None)
    /\ UNCHANGED <<Disk, userFile>>

Quiet == \A p \in Procs : pc[p] = "idle"

UserEditWith(C) ==
    /\ \E c \in C \cup {NoFile} :
        /\ c # file
        /\ file' = c
        /\ userFile' = c
        /\ dirExists' = (dirExists \/ c # NoFile)
    /\ UNCHANGED <<pc, args, fault, parentEnv, file0, LoadLocals, RunLocals, out, exit, loads>>

UserEdit == UserEditWith(Contents)

\* What an invocation does once it has begun.
Run1(p) ==
    \/ Main(p)
    \/ GetConfigPath(p)
    \/ Stat(p)
    \/ MkdirAll(p)
    \/ OpenTrunc(p)
    \/ WriteDefault(p)
    \/ ReadFile(p)
    \/ Parse(p)
    \/ MainAfterLoad(p)
    \/ PrintAfterLoad(p)
    \/ RunBuild(p)
    \/ CmdStart(p)
    \/ CmdWait(p)
    \/ MainAfterRun(p)

Step(p) ==
    \/ Start(p)
    \/ Run1(p)
    \/ Reap(p)

\* One invocation at a time, the user editing the file between them.
Next ==
    \/ \E p \in SeqProcs : Step(p)
    \/ Quiet /\ UserEdit

Spec == Init /\ [][Next]_vars

----------------------------------------------------------------------------
(* Independent invocations at the same time.  Each process runs cs once,   *)
(* its steps interleaved with the other's at the platform calls.           *)

ConcContents == {DefaultConfig, Doc("map", EntriesOf({"dev"})), Malformed}
ConcArgLists == {<<>>, <<"dev">>}

InitConc == InitWith(ConcContents)

StartConc(p) == StartWith(p, ConcArgLists, {"none"}, {<<>>})

NextConc ==
    \E p \in Procs : StartConc(p) \/ Run1(p)

\* Invocations alone with the file.
SpecConc == InitConc /\ [][NextConc]_vars

\* The user creates the file, replaces it or deletes it at any moment.
UserContents == {Doc("map", EntriesOf({"dev"}))}

UserEditConc == UserEditWith(UserContents)

NextUser ==
    \/ \E p \in Procs : StartConc(p) \/ Run1(p)
    \/ UserEditConc

\* Invocations and the user.
SpecUser == InitConc /\ [][NextUser]_vars

----------------------------------------------------------------------------
(* Properties *)

\* The names a content gives to environments, as the text has them.
NamesIn(c) == {c.entries[i].name : i \in 1 .. Len(c.entries)}

\* The lines of names an invocation printed.
NamesPrinted(p) == SelectSeq(out[p], LAMBDA line : line[1] = "name")

\* C1: a LoadConfig that found no file at the config path, and whose
\* directory and file creation succeeded, has written a file that holds the
\* default `glm` environment; unless the read of that file then fails, it
\* returns a Configuration, and the Configuration it returns has the key glm.
C1_MissingFileCreated ==
    \A p \in Procs :
        (pc[p] = "loaded" /\ missing[p] /\ err[p] \notin {HomeDirUnavailable, ConfigWriteError})
        => /\ file.kind = "doc" /\ file.section = "map"
           /\ "glm" \in NamesIn(file)
           /\ fault[p] # "read" => err[p] = NoError
           /\ err[p] = NoError =>
                /\ cfg[p] # None
                /\ "glm" \in DOMAIN cfg[p][1].Environments
                /\ cfg[p][1].Environments["glm"].Target = <<"claude">>

C1_Witness ==
    \E p \in Procs :
        /\ pc[p] = "loaded" /\ missing[p] /\ file0[p] = NoFile
        /\ err[p] = NoError /\ cfg[p] # None
        /\ <<"created", "">> = out[p][Len(out[p])]

\* C2: a step of an invocation never changes the content of a config file
\* that exists, the one write that fills the file the invocation has just
\* created apart: the file is created when missing, and neither overwritten
\* nor written back afterwards.
C2_ExistingFileNeverWritten ==
    [][(file # NoFile /\ pc' # pc /\ \A p \in Procs : pc[p] # "write")
            => file' = file]_vars

C2_Witness ==
    \E p \in Procs :
        /\ pc[p] = "done" /\ file0[p] \notin {NoFile, DefaultConfig}
        /\ file = file0[p] /\ cfg[p] # None /\ ~missing[p]

\* C3: an invocation exits with status 0 or 1, and with 0 exactly when it
\* had an argument, the configuration loaded, the first argument is a key
\* of it (letter case included) and Run returned no error, which it does
\* only after a child that ended with status 0.
C3_ExitZeroOnlyOnSuccess ==
    \A p \in Procs :
        pc[p] = "done" =>
            /\ exit[p] \in {Some(0), Some(1)}
            /\ exit[p] = Some(0) <=>
                    /\ Len(args[p]) >= 1
                    /\ cfg[p] # None
                    /\ args[p][1] \in DOMAIN cfg[p][1].Environments
                    /\ args[p][1] \in NamesIn(file)
                    /\ err[p] = NoError
            /\ exit[p] = Some(0) => child[p] # None /\ child[p][1].status = Some(0)
            /\ fault[p] \in {"nohome", "read", "nostart"} => exit[p] = Some(1)

C3_Witness ==
    \E p \in Procs :
        /\ pc[p] = "done" /\ exit[p] = Some(1)
        /\ args[p] = <<"GLM">> /\ NamesIn(file) = {"glm"}
        /\ <<"notfound", "GLM">> = out[p][1]

\* C4 as stated: the invocation exits with the status its child ended with.
C4_Original ==
    \A p \in Procs :
        (pc[p] = "done" /\ child[p] # None /\ child[p][1].status # None)
        => exit[p] = child[p][1].status

\* C4, amended: the invocation exits with 0 when its child ended with status
\* 0 and with 1 when the child ended with any other status.
C4_ExitZeroOrOne ==
    \A p \in Procs :
        (pc[p] = "done" /\ child[p] # None /\ child[p][1].status # None)
        => exit[p] = IF child[p][1].status = Some(0) THEN Some(0) ELSE Some(1)

C4_Witness ==
    \E p \in Procs :
        /\ pc[p] = "done" /\ child[p] # None
        /\ child[p][1].status = Some(MaxChildStatus) /\ exit[p] = Some(1)

AllWhitespace(t) == \A i \in 1 .. Len(t) : t[i] \in Whitespace

\* C5: Run returns EmptyTarget exactly for the target "", and InvalidTarget
\* exactly for a target that is not empty and holds whitespace only; in
\* both cases no command is built and no child is started.
C5_TargetValidated ==
    \A p \in Procs :
        envConfig[p] # None =>
            LET t == envConfig[p][1].Target
            IN  /\ pc[p] \in {"ran", "done"} =>
                    /\ err[p] = EmptyTarget <=> t = <<>>
                    /\ err[p] = InvalidTarget <=> (t # <<>> /\ AllWhitespace(t))
                /\ AllWhitespace(t) =>
                    /\ pc[p] \in {"run", "ran", "done"}
                    /\ cmd[p] = None /\ child[p] = None /\ starts[p] = 0

C5_Witness ==
    \E p \in Procs :
        /\ pc[p] = "done" /\ envConfig[p] # None
        /\ envConfig[p][1].Target = <<" ", "\t">>
        /\ err[p] = InvalidTarget /\ child[p] = None /\ exit[p] = Some(1)

\* The names whose value in the child is compared with the parent's.
ProbeNames == VarNames \cup {<<"C">>}

HasEquals(name) == \E i \in 1 .. Len(name) : name[i] = "="

\* The child of p sees every configured variable with its configured value
\* and every other variable as the parent has it, and the parent's very
\* environment block when nothing is configured.
OverlayHolds(p) ==
    LET e == envConfig[p][1].Environment
        ce == child[p][1].environ
        pe == parentEnv[p]
    IN  /\ \A k \in DOMAIN e : Getenv(ce, k) = Some(e[k])
        /\ \A n \in ProbeNames \ DOMAIN e : Getenv(ce, n) = Getenv(pe, n)
        /\ DOMAIN e = {} => ce = pe

\* C6 as stated: for every Environment whose target has a token, the child
\* sees the parent's environment with each configured variable added or
\* overwritten, the configured value winning.
C6_Original ==
    \A p \in Procs : child[p] # None => OverlayHolds(p)

\* C6, amended: the same, for every Environment none of whose variable
\* names holds the character "=".
C6_OverlayForPlainNames ==
    \A p \in Procs :
        (child[p] # None /\ \A k \in DOMAIN envConfig[p][1].Environment : ~HasEquals(k))
        => OverlayHolds(p)

C6_Witness ==
    \E p \in Procs :
        /\ child[p] # None
        /\ DOMAIN envConfig[p][1].Environment = {<<"A">>, <<"B">>}
        /\ envConfig[p][1].Environment[<<"A">>] = <<"y", "=">>
        /\ Getenv(parentEnv[p], <<"A">>) = Some(<<"p">>)
        /\ Getenv(child[p][1].environ, <<"A">>) = Some(<<"y", "=">>)

\* The places of a target where a token begins, where the token that
\* begins at i ends, and where the n-th token begins.
TokenStarts(t) ==
    {i \in 1 .. Len(t) : t[i] \notin Whitespace /\ (i = 1 \/ t[i - 1] \in Whitespace)}

TokenEnd(t, i) ==
    CHOOSE j \in i .. Len(t) :
        /\ \A k \in i .. j : t[k] \notin Whitespace
        /\ j = Len(t) \/ t[j + 1] \in Whitespace

NthStart(t, n) ==
    CHOOSE i \in TokenStarts(t) : Cardinality({j \in TokenStarts(t) : j < i}) = n - 1

\* C7: the command Run builds has the first maximal run of non-whitespace
\* symbols of the target as its executable and the following runs, each
\* verbatim and in their order, as its arguments; the child is started with
\* that executable and those arguments.
C7_TokensVerbatim ==
    \A p \in Procs :
        /\ cmd[p] # None =>
            LET t == envConfig[p][1].Target
                toks == <<cmd[p][1].Path>> \o cmd[p][1].Args
            IN  /\ Len(toks) = Cardinality(TokenStarts(t))
                /\ \A n \in 1 .. Len(toks) :
                        toks[n] = SubSeq(t, NthStart(t, n), TokenEnd(t, NthStart(t, n)))
        /\ child[p] # None =>
            /\ child[p][1].path = cmd[p][1].Path
            /\ child[p][1].argv = cmd[p][1].Args

C7_Witness ==
    \E p \in Procs :
        /\ child[p] # None
        /\ envConfig[p][1].Target = <<"\"", "\t", "a">>
        /\ child[p][1].path = <<"\"">>
        /\ child[p][1].argv = << <<"a">> >>

\* C8: a LoadConfig that succeeds returns a Configuration whose map is not
\* nil, and an empty one when the file is empty or its environments section
\* is absent, null or an empty mapping.
C8_MapNeverNil ==
    \A p \in Procs :
        (pc[p] = "loaded" /\ err[p] = NoError) =>
            /\ cfg[p] # None
            /\ ~cfg[p][1].nilmap
            /\ (data[p].section \in {"absent", "null"} \/ data[p].entries = <<>>)
                    => DOMAIN cfg[p][1].Environments = {}

C8_Witness ==
    \E p \in Procs :
        /\ pc[p] = "loaded" /\ err[p] = NoError /\ cfg[p] # None
        /\ data[p] = Doc("null", <<>>)

\* C9: from a valid content that names N environments LoadConfig returns a
\* map of exactly those N names, and printAvailableEnvironments prints
\* exactly those N names, each once.
C9_AllNamesLoadedAndListed ==
    \A p \in Procs :
        /\ (pc[p] = "loaded" /\ err[p] = NoError /\ data[p].section = "map") =>
            /\ DOMAIN cfg[p][1].Environments = NamesIn(data[p])
            /\ Cardinality(DOMAIN cfg[p][1].Environments) = Len(data[p].entries)
        /\ (pc[p] = "done" /\ ret[p] = "print" /\ err[p] = NoError /\ file.section = "map") =>
            LET np == NamesPrinted(p)
            IN  /\ Len(np) = Len(file.entries)
                /\ {np[i][2] : i \in 1 .. Len(np)} = NamesIn(file)

C9_Witness ==
    \E p \in Procs :
        /\ pc[p] = "done" /\ args[p] = <<>> /\ err[p] = NoError
        /\ Len(NamesPrinted(p)) = Cardinality(EnvNames)
        /\ NamesPrinted(p)[1] = <<"name", "dev">>

\* The contents that are not a valid configuration: not YAML, a list in
\* the place of the mapping, a name given twice.
Invalid(c) ==
    \/ c.kind = "malformed"
    \/ c.kind = "doc" /\ c.section = "seq"
    \/ c.kind = "doc" /\ c.section = "map" /\ Cardinality(NamesIn(c)) < Len(c.entries)

\* C10: LoadConfig, having read a content that is not a valid configuration,
\* returns ConfigParseError and a nil Configuration; an invocation that
\* began with such a file leaves it as it was, starts no child and exits
\* with status 1.
C10_ParseErrorIsFatal ==
    \A p \in Procs :
        /\ (pc[p] \in {"loaded", "done"} /\ Invalid(data[p])) =>
            /\ err[p] = ConfigParseError
            /\ cfg[p] = None
        /\ (pc[p] # "idle" /\ Invalid(file0[p])) =>
            /\ file = file0[p]
            /\ child[p] = None /\ starts[p] = 0 /\ cmd[p] = None
            /\ pc[p] = "done" => exit[p] = Some(1)

C10_Witness ==
    \E p \in Procs :
        /\ pc[p] = "done" /\ args[p] = <<"dev">> /\ file0[p] = Doc("seq", <<>>)
        /\ err[p] = ConfigParseError /\ exit[p] = Some(1)
        /\ out[p] = << <<"fatal", ConfigParseError>> >>

\* C11: an invocation starts a child at most once; Run has returned, and
\* the invocation has exited, only after the child it started ended or
\* after the start failed; while the child runs the invocation waits.
C11_OnceAndSynchronous ==
    \A p \in Procs :
        /\ starts[p] <= 1
        /\ starts[p] = (IF child[p] = None THEN 0 ELSE 1)
        /\ (pc[p] \in {"ran", "done"} /\ cmd[p] # None) =>
            \/ child[p] # None /\ child[p][1].status # None
            \/ child[p] = None /\ err[p] = StartError
        /\ (child[p] # None /\ child[p][1].status = None) => pc[p] = "wait"

C11_Witness ==
    \E p \in Procs :
        /\ pc[p] = "done" /\ starts[p] = 1
        /\ child[p] # None /\ child[p][1].status = Some(1)
        /\ exit[p] = Some(1)

\* C12: while several invocations load a file that was there in the
\* beginning and that nobody edits, the file stays as it was, every read
\* returns the whole content, and every load returns what that content
\* parses to: the same error for all, or Configurations equal to each other
\* with one entry per name of the file.
C12_ConcurrentLoadsAgree ==
    userFile # NoFile =>
        /\ file = userFile
        /\ \A p \in Procs :
            /\ ~missing[p]
            /\ data[p] \in {NoFile, userFile}
            /\ pc[p] = "loaded" =>
                IF Invalid(userFile)
                THEN cfg[p] = None /\ err[p] = ConfigParseError
                ELSE /\ err[p] = NoError /\ cfg[p] # None
                     /\ DOMAIN cfg[p][1].Environments = NamesIn(userFile)
                     /\ Cardinality(DOMAIN cfg[p][1].Environments) = Len(userFile.entries)
        /\ \A p, q \in Procs :
            (pc[p] = "loaded" /\ pc[q] = "loaded") => cfg[p] = cfg[q]

C12_Witness ==
    /\ userFile = DefaultConfig
    /\ \A p \in Procs : pc[p] = "loaded" /\ cfg[p] # None /\ loads[p] = 1
    /\ \E p, q \in Procs : p # q /\ args[p] # args[q]

\* C13 as stated: when all invocations began with no file and no user
\* writes one, every load of theirs returns a Configuration that has glm,
\* and once they are all done the file holds the default content.
C13_Original ==
    (userFile = NoFile /\ \A q \in Procs : pc[q] # "idle" /\ file0[q] = NoFile) =>
        /\ \A p \in Procs :
            pc[p] = "loaded" =>
                /\ err[p] = NoError /\ cfg[p] # None
                /\ "glm" \in DOMAIN cfg[p][1].Environments
        /\ (\A p \in Procs : pc[p] = "done") => file = DefaultConfig

\* C14 as stated: a file the user wrote is never truncated or replaced by
\* an invocation: as long as the user's file is there it holds what the
\* user put in it.
C14_Original ==
    userFile # NoFile => file = userFile

\* C15 as stated: an invocation that reported X not found has then printed
\* exactly the keys of the Configuration its lookup missed in, X not among
\* them, and no unable-to-load line.
C15_Original ==
    \A p \in Procs :
        (pc[p] = "done" /\ missedIn[p] # None) =>
            LET np == NamesPrinted(p)
            IN  /\ {np[i][2] : i \in 1 .. Len(np)} = missedIn[p][1]
                /\ Len(np) = Cardinality(missedIn[p][1])
                /\ \A i \in 1 .. Len(np) : np[i][2] # args[p][1]
                /\ \A i \in 1 .. Len(out[p]) : out[p][i][1] # "unable"

\* C16: an invocation without arguments loads the configuration exactly
\* once, builds no command and starts no child, and exits with status 1
\* after the names of the loaded Configuration or, the load failing, after
\* an unable-to-load line and no name; with no file in the beginning (and
\* no failure) it has created the directory and the default file and listed
\* glm.
C16_ZeroArgumentsLoadsOnce ==
    \A p \in Procs :
        (pc[p] # "idle" /\ Len(args[p]) = 0) =>
            /\ loads[p] <= 1
            /\ cmd[p] = None /\ child[p] = None /\ starts[p] = 0
            /\ pc[p] = "done" =>
                LET np == NamesPrinted(p)
                    unable == SelectSeq(out[p], LAMBDA line : line[1] = "unable")
                IN  /\ loads[p] = 1
                    /\ exit[p] = Some(1)
                    /\ IF err[p] = NoError
                       THEN /\ unable = <<>>
                            /\ {np[i][2] : i \in 1 .. Len(np)} = NamesIn(file)
                            /\ Len(np) = Len(file.entries)
                       ELSE /\ np = <<>>
                            /\ unable = << <<"unable", err[p]>> >>
                    /\ (file0[p] = NoFile /\ fault[p] = "none") =>
                            /\ dirExists
                            /\ file = DefaultConfig
                            /\ out[p] = << <<"usage", "">>, <<"available", "">>,
                                           <<"created", "">>, <<"name", "glm">> >>

C16_Witness ==
    \E p \in Procs :
        /\ pc[p] = "done" /\ args[p] = <<>> /\ file0[p] = NoFile
        /\ file = DefaultConfig /\ loads[p] = 1 /\ exit[p] = Some(1)
        /\ out[p][Len(out[p])] = <<"name", "glm">>

====
